---- MODULE Spec2Model ----
(***************************************************************************)
(* A model of tornado/tcpserver.py: the TCPServer object (its fields), the *)
(* part of the process it acts on (listening sockets and their            *)
(* descriptors, the IOLoop's accept handlers), and the accept callback    *)
(* _handle_connection.                                                    *)
(*                                                                        *)
(* Every method is a pure operator from a "world" record (the object's    *)
(* fields plus the process state it touches) to the world after the call; *)
(* the actions of the specification apply these operators to the          *)
(* variables.                                                             *)
(***************************************************************************)
EXTENDS Integers, Sequences, FiniteSets, TLC

(* ------------------------------ bounds -------------------------------- *)
\* listening sockets created in one run
MaxSocks == 2
\* sockets one bind_sockets call may return (one per address family)
MaxPerBind == 2
\* add_accept_handler calls recorded per socket
MaxReg == 2
\* largest explicit num_processes passed to start
MaxProcs == 2
\* method calls the forked workers make in one run, all workers together
MaxCalls == 2

(* ------------------------------ values -------------------------------- *)
None == "None"
\* the ports the application listens on, one per bind_sockets call
FirstPort == 8888
Ports == FirstPort..(FirstPort + MaxSocks - 1)
Paths == {"crt", "key"}
\* a key that is not in the ssl_options dict
Absent == "absent"
\* ssl_options: None, an ssl.SSLContext (not a dict), or a dict with or
\* without the keys "certfile" and "keyfile"
SSLOptionDicts == [kind : {"dict"}, certfile : {Absent, "crt"}, keyfile : {Absent, "key"}]
NoSSL == [kind |-> None, certfile |-> Absent, keyfile |-> Absent]
SSLContext == [kind |-> "SSLContext", certfile |-> Absent, keyfile |-> Absent]
SSLOptions == {NoSSL, SSLContext} \cup SSLOptionDicts
MaxBufferSizes == {None, "104857600"}
ReadChunkSizes == {None, "65536"}
\* num_processes: None or an integer
NumProcesses ==
    {[none |-> TRUE, v |-> 0]} \cup {[none |-> FALSE, v |-> i] : i \in -1..MaxProcs}
Int_(i) == [none |-> FALSE, v |-> i]

isdict(o) == o.kind = "dict"

\* the module-level name ssl: the import succeeded (it fails only on
\* platforms without OpenSSL, where ssl is None and line 251 asserts)
ssl == TRUE

VARIABLES
    files,            \* the paths that exist in the file system
    phase,            \* "new" | "ready" | "failed": before / after __init__;
                      \* "waiting": inside fork_processes, as the parent
    ctor,             \* the arguments __init__ was called with
    io_loop,          \* self.io_loop
    ssl_options,      \* self.ssl_options
    sockets,          \* self._sockets: fd -> socket object
    pending_sockets,  \* self._pending_sockets
    started,          \* self._started
    max_buffer_size,  \* self.max_buffer_size
    read_chunk_size,  \* self.read_chunk_size
    fileno,           \* the process's sockets: socket -> descriptor
    port,             \* socket -> port it is bound to
    closed,           \* sockets on which close() was called
    held,             \* sockets the application got from bind_sockets itself
    handlers,         \* the IOLoop's accept handlers: fd -> socket accepting
    regCount,         \* socket -> number of add_accept_handler calls for it
    streams,          \* listening sockets whose accepted connection is still served
    workers,          \* the processes start() forked: each one's copy of the above
    op,               \* the last step: the call's name and arguments
    events,           \* calls to collaborators the last step made, if a method call
    exc,              \* exception the last operation raised to its caller
    conn              \* what the last step did, if it was a connection attempt

self_vars == <<io_loop, ssl_options, sockets, pending_sockets, started,
               max_buffer_size, read_chunk_size>>
proc_vars == <<fileno, port, closed, held, handlers, regCount>>
hist_vars == <<op, events, exc>>
vars == <<files, phase, ctor, self_vars, proc_vars, streams, workers, hist_vars, conn>>

(* --------------------------- maps and lists --------------------------- *)
EmptyMap == [x \in {} |-> 0]
Put(m, k, v) == [x \in DOMAIN m \cup {k} |-> IF x = k THEN v ELSE m[x]]
Del(m, k) == [x \in DOMAIN m \ {k} |-> m[x]]
Range(s) == {s[i] : i \in DOMAIN s}

\* the record of one connection attempt before anything was done with it
NoConn ==
    [sock |-> 0, after_failure |-> FALSE, delivered |-> FALSE,
     wrap |-> None, closed |-> FALSE, thrown |-> None,
     stream |-> None, stream_max_buffer_size |-> None,
     stream_read_chunk_size |-> None,
     handled |-> 0, logged |-> FALSE, raised |-> None]

(* ------------------------------ the world ----------------------------- *)
World ==
    [io_loop |-> io_loop, ssl_options |-> ssl_options, sockets |-> sockets,
     pending_sockets |-> pending_sockets, started |-> started,
     max_buffer_size |-> max_buffer_size, read_chunk_size |-> read_chunk_size,
     fileno |-> fileno, port |-> port, closed |-> closed, held |-> held,
     handlers |-> handlers, regCount |-> regCount, streams |-> streams,
     events |-> <<>>, exc |-> None]

Apply(W) ==
    /\ io_loop' = W.io_loop
    /\ ssl_options' = W.ssl_options
    /\ sockets' = W.sockets
    /\ pending_sockets' = W.pending_sockets
    /\ started' = W.started
    /\ max_buffer_size' = W.max_buffer_size
    /\ read_chunk_size' = W.read_chunk_size
    /\ fileno' = W.fileno
    /\ port' = W.port
    /\ closed' = W.closed
    /\ held' = W.held
    /\ handlers' = W.handlers
    /\ regCount' = W.regCount
    /\ streams' = W.streams
    /\ events' = W.events
    /\ exc' = W.exc

(* --------------------------- collaborators ---------------------------- *)
\* descriptors of the sockets this process has open
OpenFds(W) == {W.fileno[s] : s \in DOMAIN W.fileno \ W.closed}

\* the kernel hands out the lowest descriptor not in use
LowestFreeFd(used) == CHOOSE fd \in 1..(Cardinality(used) + 1) :
    fd \notin used /\ \A g \in 1..(fd - 1) : g \in used

RECURSIVE bind_sockets(_, _, _)
\* netutil.bind_sockets(port): k new bound, listening sockets
bind_sockets(W, p, k) ==
    IF k = 0 THEN W
    ELSE LET W1 == [W EXCEPT !.fileno = Append(@, LowestFreeFd(OpenFds(W))),
                             !.port = Append(@, p),
                             !.regCount = Append(@, 0)]
         IN bind_sockets(W1, p, k - 1)

\* the sockets the last bind_sockets call on W0 created, in order
NewSockets(W0, W1) == [i \in 1..(Len(W1.fileno) - Len(W0.fileno)) |-> Len(W0.fileno) + i]

\* netutil.add_accept_handler(sock, callback, io_loop)
add_accept_handler(W, sock) ==
    [W EXCEPT !.handlers = Put(@, W.fileno[sock], sock),
              !.regCount[sock] = @ + 1,
              !.events = Append(@, <<"add_accept_handler", sock>>)]

\* io_loop.remove_handler(fd)
remove_handler(W, fd) ==
    [W EXCEPT !.handlers = Del(@, fd),
              !.events = Append(@, <<"remove_handler", fd>>)]

\* closing a listening socket also ends the connections accepted on it
close_with_connections(W, sock) ==
    [W EXCEPT !.closed = @ \cup {sock},
              !.streams = @ \ {sock},
              !.events = Append(@, <<"close", sock>>)]

\* sock.close()
close(W, sock) ==
    [W EXCEPT !.closed = @ \cup {sock},
              !.events = Append(@, <<"close", sock>>)]

\* process.fork_processes(num_processes), seen from a process it returns in
fork_processes(W, n) ==
    [W EXCEPT !.events = Append(@, <<"fork_processes", n>>)]

(* ------------------------------ TCPServer ----------------------------- *)
\* init_error without the check of the key path
init_error_no_keyfile(opts, exists) ==
    IF opts # NoSSL /\ isdict(opts)
    THEN IF opts.certfile = Absent THEN "KeyError"
         ELSE IF opts.certfile \notin exists THEN "ValueError"
         ELSE None
    ELSE None

\* the exception __init__ raises for these arguments, or None
init_error(opts, exists) ==
    IF opts # NoSSL /\ isdict(opts)
    THEN IF opts.certfile = Absent THEN "KeyError"
         ELSE IF opts.certfile \notin exists THEN "ValueError"
         ELSE IF opts.keyfile # Absent /\ opts.keyfile \notin exists THEN "ValueError"
         ELSE None
    ELSE None

\* the value __init__ stores in self.read_chunk_size
init_read_chunk_size(arg) == None

\* the value __init__ stores in self.max_buffer_size
init_max_buffer_size(arg) == arg

RECURSIVE add_sockets_loop(_, _)
\* the for loop of add_sockets
add_sockets_loop(W, socks) ==
    IF socks = <<>> THEN W
    ELSE LET sock == Head(socks)
             W1 == [W EXCEPT !.sockets = Put(@, W.fileno[sock], sock)]
         IN add_sockets_loop(add_accept_handler(W1, sock), Tail(socks))

add_sockets(W, socks) ==
    add_sockets_loop([W EXCEPT !.io_loop = IF @ = None THEN "IOLoop" ELSE @], socks)

add_socket(W, sock) == add_sockets(W, <<sock>>)

\* listen that only queues the sockets, as bind does before start
listen_queues(W, p, k) ==
    LET W1 == bind_sockets(W, p, k)
    IN [W1 EXCEPT !.pending_sockets = @ \o NewSockets(W, W1)]

listen(W, p, k) ==
    LET W1 == bind_sockets(W, p, k)
    IN add_sockets(W1, NewSockets(W, W1))

\* bind that registers the sockets and queues them as well
bind_also_registers(W, p, k) ==
    LET W1 == bind_sockets(W, p, k)
        new == NewSockets(W, W1)
        W2 == add_sockets(W1, new)
    IN IF W.started THEN W2 ELSE [W2 EXCEPT !.pending_sockets = @ \o new]

\* bind that queues the sockets whether or not the server has started
bind_always_queues(W, p, k) ==
    LET W1 == bind_sockets(W, p, k)
    IN [W1 EXCEPT !.pending_sockets = @ \o NewSockets(W, W1)]

bind(W, p, k) ==
    LET W1 == bind_sockets(W, p, k)
        new == NewSockets(W, W1)
    IN IF W.started
       THEN add_sockets(W1, new)
       ELSE [W1 EXCEPT !.pending_sockets = @ \o new]

\* start without its assertion
start_no_assert(W, n) ==
    LET W1 == [W EXCEPT !.started = TRUE]
        W2 == IF n.none \/ n.v # 1 THEN fork_processes(W1, n) ELSE W1
        socks == W2.pending_sockets
        W3 == [W2 EXCEPT !.pending_sockets = <<>>]
    IN add_sockets(W3, socks)

\* start that forks only for num_processes > 1
start_fork_if_many(W, n) ==
    IF W.started THEN [W EXCEPT !.exc = "AssertionError"]
    ELSE LET W1 == [W EXCEPT !.started = TRUE]
             W2 == IF ~n.none /\ n.v > 1 THEN fork_processes(W1, n) ELSE W1
             socks == W2.pending_sockets
             W3 == [W2 EXCEPT !.pending_sockets = <<>>]
         IN add_sockets(W3, socks)

\* start that registers the pending sockets and leaves them in the queue
start_keeps_queue(W, n) ==
    IF W.started THEN [W EXCEPT !.exc = "AssertionError"]
    ELSE LET W1 == [W EXCEPT !.started = TRUE]
             W2 == IF n.none \/ n.v # 1 THEN fork_processes(W1, n) ELSE W1
         IN add_sockets(W2, W2.pending_sockets)

\* the end of start that empties the queue and registers nothing
start_after_fork_no_register(W) == [W EXCEPT !.pending_sockets = <<>>]

\* lines 223-225: what start does after fork_processes returned
start_after_fork(W) ==
    LET socks == W.pending_sockets
        W3 == [W EXCEPT !.pending_sockets = <<>>]
    IN add_sockets(W3, socks)

start(W, n) ==
    IF W.started THEN [W EXCEPT !.exc = "AssertionError"]
    ELSE LET W1 == [W EXCEPT !.started = TRUE]
             W2 == IF n.none \/ n.v # 1 THEN fork_processes(W1, n) ELSE W1
         IN start_after_fork(W2)

\* the processes fork_processes returns in: c children, each with a copy of
\* the parent's memory and descriptors, about to go on after line 222
fork(W, c) ==
    [i \in 1..c |-> [W EXCEPT !.events = <<>>] @@ [pc |-> "forked", calls |-> 0]]

RECURSIVE stop_loop_no_remove(_, _)
\* the loop of stop without the remove_handler call
stop_loop_no_remove(W, fds) ==
    IF fds = {} THEN W
    ELSE LET fd == CHOOSE f \in fds : \A g \in fds : f <= g
         IN stop_loop_no_remove(close(W, W.sockets[fd]), fds \ {fd})

RECURSIVE stop_loop(_, _)
stop_loop(W, fds) ==
    IF fds = {} THEN W
    ELSE LET fd == CHOOSE f \in fds : \A g \in fds : f <= g
             sock == W.sockets[fd]
         IN stop_loop(close(remove_handler(W, fd), sock), fds \ {fd})

\* stop that also closes and drops the sockets still queued
stop_drops_pending(W) ==
    LET W1 == stop_loop(W, DOMAIN W.sockets)
    IN [W1 EXCEPT !.closed = @ \cup Range(W.pending_sockets),
                  !.pending_sockets = <<>>]

stop(W) == stop_loop(W, DOMAIN W.sockets)

(* --------------------------- accept callback -------------------------- *)
\* what ssl_wrap_socket does on the accepted connection
WrapOutcomes ==
    {"ok", "SSL_ERROR_EOF", "SSL_ERROR_SSL", "ECONNABORTED", "EINVAL", "ECONNRESET"}
SSLErrors == {"SSL_ERROR_EOF", "SSL_ERROR_SSL"}
SocketErrors == {"ECONNABORTED", "EINVAL", "ECONNRESET"}
\* what the IOStream / SSLIOStream constructor does
StreamOutcomes == {"ok", "raise"}
\* what handle_stream does: the base class's, or an override that returns or raises
HandlerOutcomes == {"NotImplementedError", "return", "raise"}
\* an override that returns with the stream open: the connection is served
\* by the stream's callbacks from then on
ServeScenarios == {<<"ok", "ok", "serve">>}
\* the runs of one accept callback: a later step's outcome matters only when
\* the earlier steps succeeded
Scenarios(opts) ==
    {<<w, "ok", "return">> : w \in IF opts = NoSSL THEN {} ELSE WrapOutcomes \ {"ok"}}
    \cup {<<"ok", "raise", "return">>}
    \cup {<<"ok", "ok", hs>> : hs \in HandlerOutcomes}

\* lines 250-276: the connection record after TLS setup; raised # None or
\* closed means _handle_connection has returned
tls_setup(W, c, hasssl, wrap) ==
    IF W.ssl_options = NoSSL THEN c
    ELSE IF ~hasssl THEN [c EXCEPT !.raised = "AssertionError"]
    ELSE LET c1 == [c EXCEPT !.wrap = wrap]
         IN IF wrap = "ok" THEN c1
            ELSE IF wrap \in SSLErrors
            THEN IF wrap = "SSL_ERROR_EOF" THEN [c1 EXCEPT !.closed = TRUE]
                 ELSE [c1 EXCEPT !.raised = "SSLError"]
            ELSE IF wrap \in {"ECONNABORTED", "EINVAL"} THEN [c1 EXCEPT !.closed = TRUE]
                 ELSE [c1 EXCEPT !.raised = "socket.error"]

\* handle_stream(stream, address), lines 239-241 or the subclass's override
handle_stream(c, hs) ==
    [c EXCEPT !.handled = @ + 1,
              !.raised = IF hs = "NotImplementedError" THEN "NotImplementedError"
                         ELSE IF hs = "raise" THEN "Exception" ELSE None]

\* dispatch without the try/except around it
dispatch_no_boundary(W, c, mk, hs) ==
    LET kind == IF W.ssl_options # NoSSL THEN "SSLIOStream" ELSE "IOStream"
        c1 == IF mk = "ok"
              THEN [c EXCEPT !.stream = kind,
                             !.stream_max_buffer_size = W.max_buffer_size,
                             !.stream_read_chunk_size = W.read_chunk_size]
              ELSE [c EXCEPT !.raised = "Exception"]
    IN IF c1.raised = None THEN handle_stream(c1, hs) ELSE c1

\* lines 277-290: build the stream and call the handler inside try/except
dispatch(W, c, mk, hs) ==
    LET kind == IF W.ssl_options # NoSSL THEN "SSLIOStream" ELSE "IOStream"
        c1 == IF mk = "ok"
              THEN [c EXCEPT !.stream = kind,
                             !.stream_max_buffer_size = W.max_buffer_size,
                             !.stream_read_chunk_size = W.read_chunk_size]
              ELSE [c EXCEPT !.raised = "Exception"]
        c2 == IF c1.raised = None THEN handle_stream(c1, hs) ELSE c1
    IN IF c2.raised # None
       THEN [c2 EXCEPT !.thrown = c2.raised, !.raised = None, !.logged = TRUE]
       ELSE c2

\* _handle_connection that closes the connection on a benign failure but
\* does not return
handle_connection_no_return(W, sock, hasssl, wrap, mk, hs) ==
    LET c0 == [NoConn EXCEPT !.sock = sock, !.delivered = TRUE]
        c1 == tls_setup(W, c0, hasssl, wrap)
    IN IF c1.raised # None THEN c1 ELSE dispatch(W, c1, mk, hs)

\* _handle_connection(connection, address) for a connection accepted on sock
handle_connection(W, sock, hasssl, wrap, mk, hs) ==
    LET c0 == [NoConn EXCEPT !.sock = sock, !.delivered = TRUE]
        c1 == tls_setup(W, c0, hasssl, wrap)
    IN IF c1.raised # None \/ c1.closed THEN c1 ELSE dispatch(W, c1, mk, hs)

\* a connection attempt on sock reaches the accept callback
Delivered(W, sock) ==
    /\ sock \notin W.closed
    /\ W.fileno[sock] \in DOMAIN W.handlers
    /\ W.handlers[W.fileno[sock]] = sock

(* ------------------------------- actions ------------------------------ *)
\* before the constructor runs
NotConstructed ==
    /\ phase = "new"
    /\ ctor = [ssl_options |-> NoSSL, max_buffer_size |-> None,
               read_chunk_size |-> None]
    /\ io_loop = None
    /\ ssl_options = NoSSL
    /\ sockets = EmptyMap
    /\ pending_sockets = <<>>
    /\ started = FALSE
    /\ max_buffer_size = None
    /\ read_chunk_size = None
    /\ fileno = <<>>
    /\ port = <<>>
    /\ closed = {}
    /\ held = {}
    /\ handlers = EmptyMap
    /\ regCount = <<>>
    /\ streams = {}
    /\ workers = <<>>
    /\ op = <<"none">>
    /\ events = <<>>
    /\ exc = None
    /\ conn = NoConn

\* the TLS configurations of the servers whose life Spec follows
Certificate == [kind |-> "dict", certfile |-> "crt", keyfile |-> "key"]
Configs == {NoSSL, Certificate}

\* the state after TCPServer() or TCPServer(ssl_options=Certificate), in a
\* file system that holds the certificate and the key
Init ==
    /\ files = Paths
    /\ phase = "ready"
    /\ ssl_options \in Configs
    /\ init_error(ssl_options, files) = None
    /\ ctor = [ssl_options |-> ssl_options, max_buffer_size |-> None,
               read_chunk_size |-> None]
    /\ max_buffer_size = init_max_buffer_size(None)
    /\ read_chunk_size = init_read_chunk_size(None)
    /\ io_loop = None
    /\ sockets = EmptyMap
    /\ pending_sockets = <<>>
    /\ started = FALSE
    /\ fileno = <<>>
    /\ port = <<>>
    /\ closed = {}
    /\ held = {}
    /\ handlers = EmptyMap
    /\ regCount = <<>>
    /\ streams = {}
    /\ workers = <<>>
    /\ op = <<"none">>
    /\ events = <<>>
    /\ exc = None
    /\ conn = NoConn

\* TCPServer(io_loop=None, ssl_options, max_buffer_size, read_chunk_size)
Construct(opts, mbs, rcs) ==
    /\ phase = "new"
    /\ ctor' = [ssl_options |-> opts, max_buffer_size |-> mbs,
                read_chunk_size |-> rcs]
    /\ exc' = init_error(opts, files)
    /\ phase' = IF exc' = None THEN "ready" ELSE "failed"
    /\ ssl_options' = opts
    /\ max_buffer_size' = init_max_buffer_size(mbs)
    /\ read_chunk_size' = init_read_chunk_size(rcs)
    /\ sockets' = EmptyMap
    /\ pending_sockets' = <<>>
    /\ started' = FALSE
    /\ op' = <<"__init__">>
    /\ UNCHANGED <<files, io_loop, proc_vars, streams, workers, events, conn>>

Ready == phase = "ready"
Room(k) == Len(fileno) + k <= MaxSocks
\* a port no socket of this process is bound to; the lowest, ports being alike
FreePort(p) == p = FirstPort + Cardinality(Range(port))
Call(o, W) ==
    Apply(W) /\ op' = o /\ conn' = NoConn /\ UNCHANGED <<files, phase, ctor, workers>>

Listen(p, k) == Ready /\ Room(k) /\ FreePort(p) /\ Call(<<"listen", p, k>>, listen(World, p, k))

Bind(p, k) == Ready /\ Room(k) /\ FreePort(p) /\ Call(<<"bind", p, k>>, bind(World, p, k))

\* the application calls netutil.bind_sockets itself and keeps the sockets
BindSockets(p, k) ==
    /\ Ready /\ Room(k) /\ FreePort(p)
    /\ LET W1 == bind_sockets(World, p, k)
       IN Call(<<"bind_sockets", p, k>>, [W1 EXCEPT !.held = @ \cup Range(NewSockets(World, W1))])

\* sockets the application may pass to add_sockets / add_socket
Addable == {s \in held : s \notin closed /\ regCount[s] < MaxReg}

AddSockets(socks) ==
    /\ Ready
    /\ Range(socks) \subseteq Addable
    /\ \A s \in Range(socks) :
          regCount[s] + Cardinality({i \in DOMAIN socks : socks[i] = s}) <= MaxReg
    /\ Call(<<"add_sockets", socks>>, add_sockets(World, socks))

AddSocket(s) == Ready /\ s \in Addable /\ Call(<<"add_socket", s>>, add_socket(World, s))

Start(n) == Ready /\ Call(<<"start", n>>, start(World, n))

Stop == Ready /\ Call(<<"stop">>, stop(World))

\* a peer connects to listening socket s, and the IOLoop runs the accept
\* callback on the accepted connection
Connect(s, wrap, mk, hs) ==
    /\ Ready
    /\ Delivered(World, s)
    /\ hs = "serve" => s \notin streams
    /\ conn' = [handle_connection(World, s, ssl, wrap, mk, hs)
                  EXCEPT !.after_failure = conn.logged]
    /\ streams' = IF hs = "serve" /\ conn'.handled = 1 THEN streams \cup {s} ELSE streams
    /\ exc' = conn'.raised
    /\ op' = <<"connection", s>>
    /\ events' = <<>>
    /\ UNCHANGED <<files, phase, ctor, self_vars, proc_vars, workers>>

\* a peer connects to the port of s, on which this process accepts nothing
ConnectRefused(s) ==
    /\ Ready
    /\ s \in DOMAIN fileno
    /\ ~Delivered(World, s)
    /\ conn' = [NoConn EXCEPT !.sock = s]
    /\ exc' = None
    /\ op' = <<"connection", s>>
    /\ events' = <<>>
    /\ UNCHANGED <<files, phase, ctor, self_vars, proc_vars, streams, workers>>

\* the connection accepted on s ends: its handler closes the stream
StreamClose(s) ==
    /\ Ready
    /\ s \in streams
    /\ streams' = streams \ {s}
    /\ conn' = NoConn
    /\ exc' = None
    /\ op' = <<"stream_close", s>>
    /\ events' = <<>>
    /\ UNCHANGED <<files, phase, ctor, self_vars, proc_vars, workers>>

Next ==
    \/ \E p \in Ports, k \in 1..MaxPerBind : Listen(p, k)
    \/ \E p \in Ports, k \in 1..MaxPerBind : Bind(p, k)
    \/ \E p \in Ports, k \in 1..MaxPerBind : BindSockets(p, k)
    \/ \E s1 \in Addable, s2 \in Addable : AddSockets(<<s1, s2>>)
    \/ \E s \in Addable : AddSocket(s)
    \/ \E n \in NumProcesses : Start(n)
    \/ Stop
    \/ \E s \in DOMAIN fileno, sc \in Scenarios(ssl_options) :
          Connect(s, sc[1], sc[2], sc[3])
    \/ \E s \in DOMAIN fileno : ConnectRefused(s)

Spec == Init /\ [][Next]_vars

\* the constructor with every argument in every file system, and the
\* connections the server it built accepts
InitAnyFiles == NotConstructed /\ files \in SUBSET Paths
NextInit ==
    \/ \E opts \in SSLOptions, mbs \in MaxBufferSizes, rcs \in ReadChunkSizes :
          Construct(opts, mbs, rcs)
    \/ \E p \in Ports, k \in 1..MaxPerBind : Listen(p, k)
    \/ \E s \in DOMAIN fileno, sc \in Scenarios(ssl_options) :
          Connect(s, sc[1], sc[2], sc[3])
SpecInit == InitAnyFiles /\ [][NextInit]_vars

\* a server whose handler keeps the accepted connections open
(* ------------------------- the forked workers ------------------------- *)
RECURSIVE CreatedByWorkers(_)
\* sockets the workers created after the fork
CreatedByWorkers(ws) ==
    IF ws = <<>> THEN 0
    ELSE (Len(Head(ws).fileno) - Len(fileno)) + CreatedByWorkers(Tail(ws))

RECURSIVE CallsByWorkers(_)
\* method calls the workers made after the fork
CallsByWorkers(ws) ==
    IF ws = <<>> THEN 0 ELSE Head(ws).calls + CallsByWorkers(Tail(ws))

\* worker i has returned from start and may make another call
Running(i) ==
    /\ i \in DOMAIN workers
    /\ workers[i].pc = "running"
    /\ CallsByWorkers(workers) < MaxCalls
\* worker i after one more call, which left it in W
Called(W) == [W EXCEPT !.calls = @ + 1]
WorkerRoom(k) == Len(fileno) + CreatedByWorkers(workers) + k <= MaxSocks
WorkerFreePort(i, p) == p = FirstPort + Cardinality(Range(workers[i].port))

\* a step of worker i that leaves it in W
WorkerStep(i, o, W) ==
    /\ workers' = [workers EXCEPT ![i] = [W EXCEPT !.events = <<>>, !.exc = None]]
    /\ events' = W.events
    /\ exc' = W.exc
    /\ op' = o
    /\ conn' = NoConn
    /\ UNCHANGED <<files, phase, ctor, self_vars, proc_vars, streams>>

\* start(n) with n # 1 up to the fork: the parent stays in fork_processes,
\* and each of the c children resumes start on its own
StartFork(n, c) ==
    /\ Ready
    /\ ~started
    /\ n # Int_(1)
    /\ (~n.none /\ n.v > 1) => c = n.v
    /\ LET W1 == fork_processes([World EXCEPT !.started = TRUE], n)
       IN /\ Apply(W1)
          /\ workers' = fork(W1, c)
    /\ phase' = "waiting"
    /\ op' = <<"fork", n, c>>
    /\ conn' = NoConn
    /\ UNCHANGED <<files, ctor>>

\* fork_processes returns in worker i, which finishes start
WorkerResume(i) ==
    /\ i \in DOMAIN workers
    /\ workers[i].pc = "forked"
    /\ WorkerStep(i, <<"worker", i, "resume">>,
                  [start_after_fork(workers[i]) EXCEPT !.pc = "running"])

WorkerListen(i, p, k) ==
    /\ Running(i) /\ WorkerRoom(k) /\ WorkerFreePort(i, p)
    /\ WorkerStep(i, <<"worker", i, "listen">>, Called(listen(workers[i], p, k)))

WorkerBind(i, p, k) ==
    /\ Running(i) /\ WorkerRoom(k) /\ WorkerFreePort(i, p)
    /\ WorkerStep(i, <<"worker", i, "bind">>, Called(bind(workers[i], p, k)))

WorkerAddSockets(i, socks) ==
    /\ Running(i)
    /\ \A s \in Range(socks) :
          /\ s \in workers[i].held \ workers[i].closed
          /\ workers[i].regCount[s]
                + Cardinality({j \in DOMAIN socks : socks[j] = s}) <= MaxReg
    /\ WorkerStep(i, <<"worker", i, "add_sockets">>, Called(add_sockets(workers[i], socks)))

WorkerStop(i) ==
    /\ Running(i)
    /\ WorkerStep(i, <<"worker", i, "stop">>, Called(stop(workers[i])))

NextFork ==
    \/ \E p \in Ports, k \in 1..MaxPerBind : Bind(p, k)
    \/ \E p \in Ports, k \in 1..MaxPerBind : BindSockets(p, k)
    \/ \E n \in NumProcesses, c \in 1..MaxProcs : StartFork(n, c)
    \/ \E i \in DOMAIN workers : WorkerResume(i)
    \/ \E i \in DOMAIN workers, p \in Ports, k \in 1..MaxPerBind : WorkerListen(i, p, k)
    \/ \E i \in DOMAIN workers, p \in Ports, k \in 1..MaxPerBind : WorkerBind(i, p, k)
    \/ \E i \in DOMAIN workers, s \in held : WorkerAddSockets(i, <<s>>)
    \/ \E i \in DOMAIN workers : WorkerStop(i)
SpecFork == Init /\ [][NextFork]_vars

NextServe ==
    \/ \E p \in Ports, k \in 1..MaxPerBind : Listen(p, k)
    \/ \E p \in Ports, k \in 1..MaxPerBind : Bind(p, k)
    \/ \E n \in NumProcesses : Start(n)
    \/ Stop
    \/ \E s \in DOMAIN fileno, sc \in Scenarios(ssl_options) \cup ServeScenarios :
          Connect(s, sc[1], sc[2], sc[3])
    \/ \E s \in streams : StreamClose(s)
SpecServe == Init /\ [][NextServe]_vars

(* ------------------------------- claims ------------------------------- *)
\* the last step ran the accept callback and TLS setup did not fail
TlsPassed == conn.delivered /\ (ssl_options = NoSSL \/ conn.wrap = "ok")

\* the accept handler of socket s is the one registered for its descriptor
Registered(fn, h, s) == fn[s] \in DOMAIN h /\ h[fn[s]] = s

\* C1: when TLS setup succeeded or no TLS is configured, nothing raised while
\* building the stream or in handle_stream leaves _handle_connection: it is
\* logged, and the socket the connection came on is still accepting, so the
\* next connection is dispatched.
C1_ErrorBoundary ==
    TlsPassed =>
        /\ conn.raised = None
        /\ (conn.stream = None \/ conn.thrown # None) =>
              /\ conn.logged
              /\ Delivered(World, conn.sock)
        /\ conn.stream # None => conn.handled = 1

\* a connection was dispatched to the handler right after one that failed
C1_Witness ==
    /\ conn.after_failure
    /\ TlsPassed
    /\ conn.handled = 1

\* the wrap outcomes that are neither success nor a benign early termination
Unexpected == {"SSL_ERROR_SSL", "ECONNRESET"}
Benign == {"SSL_ERROR_EOF", "ECONNABORTED", "EINVAL"}

\* C2: an unexpected TLS setup failure is caught and logged, does not leave
\* _handle_connection, and the handler is not invoked.
C2_UnexpectedTlsCaught ==
    (conn.delivered /\ ssl_options # NoSSL /\ conn.wrap \in Unexpected) =>
        /\ conn.raised = None
        /\ conn.logged
        /\ conn.handled = 0

\* C3: a benign early termination during TLS setup closes the connection,
\* builds no stream, never invokes handle_stream and raises nothing.
C3_BenignClosed ==
    (conn.delivered /\ ssl_options # NoSSL /\ conn.wrap \in Benign) =>
        /\ conn.closed
        /\ conn.stream = None
        /\ conn.handled = 0
        /\ conn.raised = None
        /\ ~conn.logged

C3_Witness ==
    /\ conn.delivered
    /\ ssl_options # NoSSL
    /\ conn.wrap = "EINVAL"
    /\ conn.closed

\* C4: stop() removes the accept handler of, and closes, every socket this
\* server had registered; a connection attempt on a socket so closed never
\* reaches handle_stream.
C4_StopDeregisters ==
    /\ [][op'[1] = "stop" =>
            \A s \in DOMAIN fileno :
                regCount[s] > 0 => s \in closed' /\ ~Registered(fileno', handlers', s)]_vars
    /\ [](conn.sock \in closed => ~conn.delivered /\ conn.handled = 0)

\* a connection attempt on a socket that stop() closed was not delivered
C4_Witness ==
    /\ conn.sock \in closed
    /\ regCount[conn.sock] > 0
    /\ ~conn.delivered

\* C5: sockets bound before start() are only queued (no accept handler, not
\* in _sockets); start() then registers each of them exactly once.
C5_QueuedThenRegisteredOnce ==
    /\ [](\A i \in DOMAIN pending_sockets :
            /\ regCount[pending_sockets[i]] = 0
            /\ pending_sockets[i] \notin Range(sockets)
            /\ ~Registered(fileno, handlers, pending_sockets[i]))
    /\ [][(~started /\ started') =>
            \A i \in DOMAIN pending_sockets :
                /\ regCount'[pending_sockets[i]] = 1
                /\ Registered(fileno', handlers', pending_sockets[i])
                /\ Cardinality({j \in DOMAIN events' :
                       /\ events'[j][1] = "add_accept_handler"
                       /\ events'[j][2] = pending_sockets[i]}) = 1]_vars

\* start() has registered the sockets of two bind() calls, once each
C5_Witness ==
    /\ started
    /\ Len(events) = 2
    /\ events[1][1] = "add_accept_handler"
    /\ events[2][1] = "add_accept_handler"
    /\ port[events[1][2]] # port[events[2][2]]
    /\ regCount[events[1][2]] = 1
    /\ regCount[events[2][2]] = 1

\* C6: a call of start() on a started server fails with an assertion error
\* and changes nothing: no fan-out, no registration, fields unchanged.
C6_StartOnce ==
    [][(started /\ op'[1] = "start") =>
          /\ exc' = "AssertionError"
          /\ events' = <<>>
          /\ UNCHANGED <<self_vars, proc_vars>>]_vars

C6_Witness == started /\ exc = "AssertionError"

\* the add_accept_handler calls that register the sockets socks, in order
Registrations(socks) == [i \in DOMAIN socks |-> <<"add_accept_handler", socks[i]>>]

\* C7: start(n) calls fork_processes exactly when n # 1, passing n, and
\* registers the pending sockets only after that call.
C7_FanOut ==
    [][(~started /\ op'[1] = "start") =>
          IF op'[2] = Int_(1)
          THEN events' = Registrations(pending_sockets)
          ELSE /\ Len(events') = 1 + Len(pending_sockets)
               /\ events'[1][1] = "fork_processes"
               /\ events'[1][2] = op'[2]
               /\ Tail(events') = Registrations(pending_sockets)]_vars

\* start(0) forked and then registered a pending socket
C7_Witness ==
    /\ started
    /\ Len(events) >= 2
    /\ events[1][1] = "fork_processes"
    /\ events[1][2] = Int_(0)
    /\ events[2][1] = "add_accept_handler"

\* C8: with a TLS config (a dict), the constructor fails exactly when the
\* certificate option is absent, the certificate path does not exist, or a
\* key path is given and does not exist; a failure leaves no socket created
\* or registered.
C8_ConstructorValidates ==
    (phase # "new" /\ isdict(ctor.ssl_options)) =>
        LET o == ctor.ssl_options
            bad == \/ o.certfile = Absent
                   \/ o.certfile \notin files
                   \/ (o.keyfile # Absent /\ o.keyfile \notin files)
        IN /\ (phase = "failed") <=> bad
           /\ phase = "failed" =>
                 /\ exc \in {"KeyError", "ValueError"}
                 /\ fileno = <<>>
                 /\ sockets = EmptyMap
                 /\ handlers = EmptyMap

\* the certificate exists, the key path is given and does not exist
C8_Witness ==
    /\ phase = "failed"
    /\ ctor.ssl_options.certfile \in files
    /\ ctor.ssl_options.keyfile # Absent
    /\ ctor.ssl_options.keyfile \notin files

C10_SizesForwarded ==
    conn.stream # None =>
        /\ conn.stream_max_buffer_size = ctor.max_buffer_size
        /\ conn.stream_read_chunk_size = ctor.read_chunk_size

\* C11: stop() closes listening sockets only, those of its registry, and
\* leaves every accepted connection that is still served as it was.
C11_StopKeepsConnections ==
    [][op'[1] = "stop" =>
          /\ streams' = streams
          /\ closed' \ closed \subseteq Range(sockets)
          /\ \A j \in DOMAIN events' :
                /\ events'[j][1] \in {"remove_handler", "close"}
                /\ events'[j][1] = "close" => events'[j][2] \in Range(sockets)]_vars

\* stop() has closed a listening socket whose accepted connection is served
C11_Witness ==
    /\ op[1] = "stop"
    /\ \E s \in streams : s \in closed /\ <<"close", s>> \in Range(events)

\* C12: every descriptor in _sockets has its accept handler registered with
\* the IOLoop, and its socket is open.
C12_RegistryInvariant ==
    \A fd \in DOMAIN sockets :
        /\ fd \in DOMAIN handlers
        /\ handlers[fd] = sockets[fd]
        /\ sockets[fd] \notin closed

\* C13: stop() removes the handler of and closes every socket of _sockets,
\* and leaves _sockets empty.
C13_StopClearsRegistry ==
    [][op'[1] = "stop" =>
          /\ \A fd \in DOMAIN sockets :
                sockets[fd] \in closed' /\ ~Registered(fileno', handlers', sockets[fd])
          /\ sockets' = EmptyMap]_vars

\* C14: a stop() issued when every socket of _sockets was already closed by
\* an earlier stop() calls neither remove_handler nor close.
C14_StopIdempotent ==
    [][(op'[1] = "stop" /\ \A fd \in DOMAIN sockets : sockets[fd] \in closed) =>
          events' = <<>>]_vars

\* C15: the pending queue is empty in every state in which the server has
\* started: start() empties it, and a bind() on a started server registers
\* its sockets at once and queues nothing.
C15_PendingEmptyAfterStart ==
    /\ [](started => pending_sockets = <<>>)
    /\ [][(started /\ op'[1] = "bind") =>
            /\ Len(fileno') = Len(fileno) + op'[3]
            /\ \A s \in (Len(fileno) + 1)..Len(fileno') :
                  /\ s \in Range(sockets')
                  /\ Registered(fileno', handlers', s)]_vars

\* a bind() on a started server has registered its socket
C15_Witness ==
    /\ started
    /\ op[1] = "bind"
    /\ pending_sockets = <<>>
    /\ Len(events) = op[3]
    /\ events[1][1] = "add_accept_handler"
    /\ Registered(fileno, handlers, events[1][2])

\* C16: a registration of a socket whose accept handler is already
\* registered overwrites the _sockets entry and does not call
\* add_accept_handler again, and no call registers a socket twice.
C16_NoDoubleRegistration ==
    [][\A j \in DOMAIN events' :
          events'[j][1] = "add_accept_handler" =>
              LET s == events'[j][2]
              IN /\ sockets'[fileno'[s]] = s
                 /\ s \in DOMAIN fileno => ~Registered(fileno, handlers, s)
                 /\ \A i \in 1..(j - 1) :
                       ~(events'[i][1] = "add_accept_handler" /\ events'[i][2] = s)]_vars

\* C17: after start(n) with n # 1, every worker that returns from the fork
\* moves the whole inherited queue into its own _sockets and registers it
\* with its own IOLoop; a bind, listen, add_sockets or stop in one worker
\* changes _sockets, _pending_sockets and _started of no other worker, nor
\* of the parent.
C17_FanOutIndependence ==
    /\ [][(op'[1] = "worker" /\ op'[3] = "resume") =>
            LET w == workers'[op'[2]]
            IN /\ w.started
               /\ w.pending_sockets = <<>>
               /\ \A s \in Range(pending_sockets) :
                     s \in Range(w.sockets) /\ Registered(w.fileno, w.handlers, s)
               /\ events' = Registrations(pending_sockets)]_vars
    /\ [][op'[1] = "worker" =>
            /\ UNCHANGED <<sockets, pending_sockets, started>>
            /\ \A j \in DOMAIN workers :
                  j # op'[2] =>
                      /\ workers'[j].sockets = workers[j].sockets
                      /\ workers'[j].pending_sockets = workers[j].pending_sockets
                      /\ workers'[j].started = workers[j].started]_vars

\* one worker has stopped, and another still accepts on the inherited socket
C17_Witness ==
    /\ op[1] = "worker"
    /\ op[3] = "stop"
    /\ \E j \in DOMAIN workers, s \in Range(pending_sockets) :
          /\ j # op[2]
          /\ workers[j].pc = "running"
          /\ s \in workers[op[2]].closed
          /\ Delivered(workers[j], s)

\* C18: every run of the accept callback ends in exactly one of the states
\* closed-benign, done and error-logged; handle_stream is called at most
\* once, and only after TLS setup passed and a stream of the matching kind
\* was built.
C18_ConnectionStateMachine ==
    conn.delivered =>
        LET closed_benign == /\ conn.closed /\ conn.stream = None /\ conn.handled = 0
                             /\ ~conn.logged /\ conn.raised = None
            done == /\ conn.stream # None /\ conn.handled = 1 /\ conn.thrown = None
                    /\ ~conn.logged /\ ~conn.closed /\ conn.raised = None
            error_logged == conn.logged /\ ~conn.closed /\ conn.raised = None
        IN /\ Cardinality({i \in 1..3 : <<closed_benign, done, error_logged>>[i]}) = 1
           /\ conn.handled <= 1
           /\ conn.handled = 1 =>
                 /\ TlsPassed
                 /\ conn.stream = IF ssl_options # NoSSL THEN "SSLIOStream" ELSE "IOStream"

\* C19: no socket is both queued and in _sockets or queued twice, and no
\* queued socket is closed; a queued socket stays queued until start() moves
\* it into _sockets, and a socket of _sockets stays there and is never
\* queued again. (A step that changes none of the queue, _sockets, _started
\* and the closed sockets keeps all of this by the first conjunct.)
C19_SocketOwnership ==
    /\ [](\A i \in DOMAIN pending_sockets :
            /\ pending_sockets[i] \notin Range(sockets)
            /\ pending_sockets[i] \notin closed
            /\ \A j \in DOMAIN pending_sockets :
                  pending_sockets[i] = pending_sockets[j] => i = j)
    /\ [][\/ UNCHANGED <<pending_sockets, sockets, started, closed>>
          \/ /\ \A i \in DOMAIN pending_sockets :
                   LET s == pending_sockets[i]
                       queued == \E j \in DOMAIN pending_sockets' : pending_sockets'[j] = s
                       tracked == \E fd \in DOMAIN sockets' : sockets'[fd] = s
                   IN /\ queued # tracked
                      /\ (~started /\ started') => tracked
                      /\ s \notin closed'
             /\ \A fd \in DOMAIN sockets :
                   sockets[fd] \notin closed' =>
                       /\ fd \in DOMAIN sockets'
                       /\ sockets'[fd] = sockets[fd]
                       /\ \A j \in DOMAIN pending_sockets' :
                             pending_sockets'[j] # sockets[fd]]_vars

\* start() has moved two queued sockets into _sockets
C19_Witness ==
    /\ op[1] = "start"
    /\ exc = None
    /\ pending_sockets = <<>>
    /\ \E i, j \in DOMAIN events :
          /\ i # j
          /\ events[i][1] = "add_accept_handler"
          /\ events[j][1] = "add_accept_handler"
          /\ {events[i][2], events[j][2]} \subseteq Range(sockets)

\* C20: stop() changes neither _started nor the pending queue and closes no
\* queued socket; with nothing registered it changes nothing at all. A
\* start() after a stop() registers the queued sockets when the server had
\* not started and fails on its assertion when it had, and a bind() after
\* a stop() on a started server registers its sockets at once.
C20_StopFrame ==
    /\ [][op'[1] = "stop" =>
            /\ started' = started
            /\ pending_sockets' = pending_sockets
            /\ \A s \in Range(pending_sockets) : s \notin closed'
            /\ sockets = EmptyMap =>
                  events' = <<>> /\ exc' = None /\ UNCHANGED <<self_vars, proc_vars>>]_vars
    /\ [][(op[1] = "stop" /\ op'[1] = "start") =>
            IF started
            THEN exc' = "AssertionError" /\ UNCHANGED <<self_vars, proc_vars>>
            ELSE /\ exc' = None
                 /\ started'
                 /\ \A s \in Range(pending_sockets) :
                       s \in Range(sockets') /\ Registered(fileno', handlers', s)]_vars
    /\ [][(op[1] = "stop" /\ started /\ op'[1] = "bind") =>
            /\ pending_sockets' = pending_sockets
            /\ \A s \in (Len(fileno) + 1)..Len(fileno') :
                  s \in Range(sockets') /\ Registered(fileno', handlers', s)]_vars

\* stop() ran on a server never started that holds a queued socket
C20_Witness ==
    /\ op[1] = "stop"
    /\ ~started
    /\ pending_sockets # <<>>
    /\ sockets = EmptyMap
    /\ \A s \in Range(pending_sockets) : s \notin closed

====
